---------------------------- MODULE Spec2Model ----------------------------
(***************************************************************************)
(* A model of the request layer of src/app.py: the link resolver          *)
(* (spotify_url_to_id), the token cache (get_access_token over a          *)
(* SimpleCache slot), the retried metadata read (make_spotify_request     *)
(* under tenacity's retry), the metadata extraction (get_spotify_info),   *)
(* the two artifact fetches (save_image, get_spotify_code) and the two    *)
(* handlers that compose them (result, download).                         *)
(*                                                                         *)
(* A handler's outcome is what the handler function itself does: it       *)
(* returns a response, or an exception leaves it (resp.kind = "raise").   *)
(* Strings the code splits or filters are sequences of symbols; every     *)
(* other string is an atom.                                                *)
(***************************************************************************)
EXTENDS Integers, Sequences, FiniteSets, TLC

VARIABLES
    now,            \* the wall clock read by the cache, in seconds
    ticks,          \* how many times the clock has moved
    cache,          \* the SimpleCache slot 'spotify_access_token'
    pc,             \* where the request in service stands
    op,             \* the handler in service: "result" or "download"
    url,            \* the submitted link (spotify_url)
    file_type,      \* download's <file_type> path parameter
    if_none_match,  \* download's If-None-Match request header
    ref,            \* (content_id, content_type) as spotify_url_to_id returned it
    access_token,   \* get_spotify_info's local access_token
    calls,          \* outcomes of the wrapped read in this make_spotify_request call
    meta,           \* (title, artist, album_art_url) as get_spotify_info returned it
    resp,           \* the outcome of the handler
    log,            \* records written to app.logger during this request
    net,            \* outbound network calls made during this request
    tokenCall,      \* history: this request's get_access_token() call
    lastFetch,      \* history: the last successful credential exchange
    order,          \* history: the steps of this request, in the order taken
    fname,          \* SpecSanitize: the string given to sanitize_filename
    sanitized,      \* SpecSanitize: the results of applying it once, then again
    callers,        \* SpecRace: each concurrent get_access_token() call
    issued,         \* SpecRace: the tokens the auth endpoint has issued
    lastWrite       \* SpecRace: the token of the latest cache.set

vars == <<now, ticks, cache, pc, op, url, file_type, if_none_match, ref, access_token,
          calls, meta, resp, log, net, tokenCall, lastFetch, order, fname, sanitized,
          callers, issued, lastWrite>>

\* The variables of the specifications that run one function on its own.
standalone == <<fname, sanitized, callers, issued, lastWrite>>

-----------------------------------------------------------------------------
(* Bounds of the model *)

\* Clock ticks a behaviour may take.
MaxTicks == 2

\* Longest link, in symbols, the resolver is applied to in SpecResolve.
MaxLinkLen == 4

\* Longest string, in characters, the sanitizer is applied to in SpecSanitize.
MaxNameLen == 4

-----------------------------------------------------------------------------
(* Program constants *)

\* cache.set(..., timeout=60*60)
TokenTimeout == 3600

\* stop=stop_after_attempt(3)
StopAfterAttempt == 3

\* wait=wait_fixed(2)
WaitFixed == 2

\* gunicorn_config.py: threads = 2, the threads of one worker process, which
\* share the worker's SimpleCache.
Threads == 2

\* Python's None, where the value is otherwise an atom.
None == "None"

Kinds == {"track", "album", "playlist"}

-----------------------------------------------------------------------------
(* Sequences of symbols: the string operations the code uses *)

\* Python's `s in url` for a keyword s: the symbols are chosen so that a keyword
\* occurs in a link only as a symbol of its own.
Contains(s, sym) == \E i \in 1..Len(s) : s[i] = sym

\* url.split(sep)[-1]: what follows the last sep (the whole string without one).
SplitLast(s, sep) ==
    LET idx == {i \in 1..Len(s) : s[i] = sep}
        last == IF idx = {} THEN 0 ELSE CHOOSE i \in idx : \A j \in idx : j <= i
    IN  SubSeq(s, last + 1, Len(s))

\* seg.split(sep)[0]: what precedes the first sep (the whole string without one).
SplitFirst(s, sep) ==
    LET idx == {i \in 1..Len(s) : s[i] = sep}
        first == IF idx = {} THEN Len(s) + 1 ELSE CHOOSE i \in idx : \A j \in idx : i <= j
    IN  SubSeq(s, 1, first - 1)

\* The tuple spotify_url_to_id returns; isNone marks (None, None).
ContentRef(id, type) == [isNone |-> FALSE, id |-> id, type |-> type]
NoneRef == [isNone |-> TRUE, id |-> <<>>, type |-> None]

LastSegment(link) == SplitFirst(SplitLast(link, "/"), "?")

\* spotify_url_to_id with the kind taken from the keyword that occurs first in
\* the link instead of from the fixed order of the tests.
spotify_url_to_id_by_position(link) ==
    LET idx == {i \in 1..Len(link) : link[i] \in Kinds}
        first == CHOOSE i \in idx : \A j \in idx : i <= j
    IN  IF idx = {} THEN NoneRef ELSE ContentRef(LastSegment(link), link[first])

spotify_url_to_id(link) ==
    IF Contains(link, "track") THEN ContentRef(LastSegment(link), "track")
    ELSE IF Contains(link, "album") THEN ContentRef(LastSegment(link), "album")
    ELSE IF Contains(link, "playlist") THEN ContentRef(LastSegment(link), "playlist")
    ELSE NoneRef

\* re.sub(r'[<>:"/\\|?*]', '', filename)
ForbiddenChars == {"<", ">", ":", "\"", "/", "\\", "|", "?", "*"}
Whitespace == {" ", "\t", "\n"}

RECURSIVE LStrip(_)
LStrip(s) == IF s /= <<>> /\ Head(s) \in Whitespace THEN LStrip(Tail(s)) ELSE s

RECURSIVE RStrip(_)
RStrip(s) ==
    IF s /= <<>> /\ s[Len(s)] \in Whitespace THEN RStrip(SubSeq(s, 1, Len(s) - 1)) ELSE s

Strip(s) == RStrip(LStrip(s))

\* sanitize_filename with the two steps the other way round: the whitespace is
\* stripped first and the characters are removed after.
sanitize_filename_strip_first(filename) ==
    SelectSeq(Strip(filename), LAMBDA c : c \notin ForbiddenChars)

sanitize_filename(filename) ==
    Strip(SelectSeq(filename, LAMBDA c : c \notin ForbiddenChars))

-----------------------------------------------------------------------------
(* The cache slot (flask_caching SimpleCache) *)

EmptySlot == [present |-> FALSE, expires |-> 0, value |-> None]

\* CacheGet with the expiry test the wrong way round.
CacheGetInverted(c, t) ==
    IF c.present /\ (c.expires = 0 \/ c.expires < t) THEN c.value ELSE None

\* SimpleCache.get: the value while `expires == 0 or expires > time()`, else None.
CacheGet(c, t) ==
    IF c.present /\ (c.expires = 0 \/ c.expires > t) THEN c.value ELSE None

\* SimpleCache.set: expires = time() + timeout.
CacheSet(value, timeout, t) ==
    [present |-> TRUE, expires |-> IF timeout > 0 THEN t + timeout ELSE 0, value |-> value]

\* Python truth of a cached value: `if cached_token:`.
Truthy(v) == v /= None /\ v /= ""

-----------------------------------------------------------------------------
(* The upstream services: what a network call can come back with *)

\* Bearer tokens the auth endpoint may issue (RFC 6749: a non-empty string).
Tokens == {"tokA", "tokB"}

\* The expires_in the auth endpoint may report beside the token.
ReportedTTLs == {1800, 3600, 7200}

\* A response's status; NoReply stands for a call that raised instead of
\* returning (requests.ConnectionError and the like).
NoReply == 0
FailureStatuses == {NoReply, 401, 503}

\* requests.post(...) to accounts.spotify.com/api/token
ExchangeResponses ==
    [status : {200}, access_token : Tokens, expires_in : ReportedTTLs]
    \cup [status : FailureStatuses, access_token : {None}, expires_in : {0}]

\* A metadata JSON body: the keys it has and the values under them. `images` is
\* the list the kind's path leads to (info['album']['images'] for a track,
\* info['images'] otherwise).
FullInfo ==
    [keys |-> {"name", "artists", "album", "images", "owner"},
     name |-> <<"A", ":", " ", "b", " ">>,
     artists |-> << <<"x">>, <<"y", "?">> >>,
     owner |-> <<"o", "/">>,
     images |-> <<"img1", "img2">>]
NoImagesInfo == [FullInfo EXCEPT !.images = <<>>]
NoNameInfo == [FullInfo EXCEPT !.keys = @ \ {"name"}]
Infos == {FullInfo, NoImagesInfo, NoNameInfo}

\* requests.get(endpoint, headers=...) to api.spotify.com
ReadResponses ==
    [status : {200}, json : Infos] \cup [status : FailureStatuses, json : {FullInfo}]

\* The bytes behind a cover-art URL, and what PIL makes of them.
RawImages == {"jpgA", "pngB", "junk"}
Decodable(raw) == raw /= "junk"
PngEncode(raw) == IF raw = "jpgA" THEN "pngA" ELSE raw

\* requests.get(image_url)
ImageResponses ==
    [status : {200}, content : RawImages] \cup [status : FailureStatuses, content : {None}]

\* requests.get(scannables url)
CodeResponses ==
    [status : {200}, content : {"svgA", "svgB"}]
    \cup [status : FailureStatuses, content : {None}]

\* What requests raises for a call: ConnectionError when no reply came,
\* HTTPError from raise_for_status() for a 4xx/5xx reply, nothing otherwise.
RequestError(status) ==
    IF status = NoReply THEN "ConnectionError"
    ELSE IF status >= 400 /\ status < 600 THEN "HTTPError"
    ELSE None

\* Python's exception classes, as far as the handlers' except clauses tell them apart.
IsRequestException(exc) == exc \in {"HTTPError", "ConnectionError"}
IsValueError(exc) == exc = "ValueError"

-----------------------------------------------------------------------------
(* get_access_token *)

\* CacheTimeout taking the lifetime the reply reports.
CacheTimeoutReported(r) == r.expires_in

\* The timeout get_access_token stores the token with; the reply's own
\* expires_in is not read.
CacheTimeout(r) == TokenTimeout

\* get_access_token storing the reply's token before it looks at the status.
get_access_token_set_first(c, t, r) ==
    LET cached_token == CacheGet(c, t)
        stored == CacheSet(r.access_token, CacheTimeout(r), t)
    IN
    IF Truthy(cached_token)
    THEN [token |-> cached_token, exc |-> None, cache |-> c, exchanges |-> 0,
          log |-> {<<"info", 49>>}]
    ELSE IF r.status = NoReply
    THEN [token |-> None, exc |-> "ConnectionError", cache |-> c, exchanges |-> 1,
          log |-> {}]
    ELSE IF r.status = 401
    THEN [token |-> None, exc |-> "Exception", cache |-> stored, exchanges |-> 1,
          log |-> {<<"error", 62>>}]
    ELSE IF RequestError(r.status) /= None
    THEN [token |-> None, exc |-> RequestError(r.status), cache |-> stored,
          exchanges |-> 1, log |-> {}]
    ELSE [token |-> r.access_token, exc |-> None, cache |-> stored, exchanges |-> 1,
          log |-> {<<"info", 68>>}]

\* get_access_token without the two status checks (lines 61-65): whatever the
\* reply holds under 'access_token' is stored and returned.
get_access_token_unchecked(c, t, r) ==
    LET cached_token == CacheGet(c, t) IN
    IF Truthy(cached_token)
    THEN [token |-> cached_token, exc |-> None, cache |-> c, exchanges |-> 0,
          log |-> {<<"info", 49>>}]
    ELSE [token |-> r.access_token, exc |-> None,
          cache |-> CacheSet(r.access_token, CacheTimeout(r), t), exchanges |-> 1,
          log |-> {<<"info", 68>>}]

\* One call of get_access_token() at time t on slot c; r is the auth endpoint's
\* reply, which is read only when the slot yields nothing.
get_access_token(c, t, r) ==
    LET cached_token == CacheGet(c, t) IN
    IF Truthy(cached_token)
    THEN [token |-> cached_token, exc |-> None, cache |-> c, exchanges |-> 0,
          log |-> {<<"info", 49>>}]
    ELSE IF r.status = NoReply
    THEN [token |-> None, exc |-> "ConnectionError", cache |-> c, exchanges |-> 1,
          log |-> {}]
    ELSE IF r.status = 401
    THEN [token |-> None, exc |-> "Exception", cache |-> c, exchanges |-> 1,
          log |-> {<<"error", 62>>}]
    ELSE IF RequestError(r.status) /= None
    THEN [token |-> None, exc |-> RequestError(r.status), cache |-> c, exchanges |-> 1,
          log |-> {}]
    ELSE [token |-> r.access_token, exc |-> None,
          cache |-> CacheSet(r.access_token, CacheTimeout(r), t), exchanges |-> 1,
          log |-> {<<"info", 68>>}]

-----------------------------------------------------------------------------
(* make_spotify_request under @retry(wait=wait_fixed(2), stop=stop_after_attempt(3)) *)

\* ShouldStop allowing one attempt more.
ShouldStopLate(attempt_number) == attempt_number > StopAfterAttempt

\* ShouldStop never stopping: the read is retried as long as it fails.
ShouldStopNever(attempt_number) == FALSE

\* tenacity's stop condition, asked after a failed attempt.
ShouldStop(attempt_number) == attempt_number >= StopAfterAttempt

\* tenacity's retry condition (the default retry_if_exception_type(): any exception).
ShouldRetry(exc) == exc /= None

\* Seconds the wrapper has slept after `n` attempts that were all retried.
Slept(n) == WaitFixed * n

-----------------------------------------------------------------------------
(* get_spotify_info's extraction, lines 127-138 *)

\* ', '.join(names)
RECURSIVE Join(_)
Join(names) ==
    IF names = <<>> THEN <<>>
    ELSE IF Len(names) = 1 THEN names[1]
    ELSE names[1] \o <<",", " ">> \o Join(Tail(names))

NoMeta == [title |-> <<>>, artist |-> <<>>, album_art_url |-> None]

\* The fields of `info` for a kind, in the order the code reads them: the first
\* missing key raises KeyError, an empty images list IndexError.
Extract(content_type, info) ==
    LET artistKey == IF content_type = "playlist" THEN "owner" ELSE "artists"
        imagesKey == IF content_type = "track" THEN "album" ELSE "images"
    IN  IF "name" \notin info.keys THEN [exc |-> "KeyError", meta |-> NoMeta]
        ELSE IF artistKey \notin info.keys THEN [exc |-> "KeyError", meta |-> NoMeta]
        ELSE IF imagesKey \notin info.keys THEN [exc |-> "KeyError", meta |-> NoMeta]
        ELSE IF info.images = <<>> THEN [exc |-> "IndexError", meta |-> NoMeta]
        ELSE [exc |-> None,
              meta |-> [title |-> info.name,
                        artist |-> IF content_type = "playlist" THEN info.owner
                                   ELSE Join(info.artists),
                        album_art_url |-> info.images[1]]]

-----------------------------------------------------------------------------
(* Responses *)

NoResp ==
    [kind |-> "none", status |-> 0, body |-> None, flash |-> None, exc |-> None,
     etag |-> None, cache_control |-> None, mimetype |-> None, file_name |-> <<>>,
     view |-> <<>>]

\* return render_template('result.html', ...)
Render(v) == [NoResp EXCEPT !.kind = "render", !.status = 200, !.view = <<v>>]

\* flash(msg); return redirect(url_for('main.index'))
Redirect(msg) == [NoResp EXCEPT !.kind = "redirect", !.status = 302, !.flash = msg]

\* return body, status
Plain(body, status) == [NoResp EXCEPT !.kind = "response", !.status = status, !.body = body]

\* An exception left the handler.
Raise(exc) == [NoResp EXCEPT !.kind = "raise", !.exc = exc]

\* hashlib.md5(file_content).hexdigest()
generate_etag(file_content) ==
    CASE file_content = "pngA" -> "md5:0a"
      [] file_content = "pngB" -> "md5:1b"
      [] file_content = "svgA" -> "md5:2c"
      [] file_content = "svgB" -> "md5:3d"
      [] OTHER -> "md5:ff"

\* urllib.parse.quote of a file name: a space becomes %20, the other symbols a
\* sanitized name can hold are unreserved and stay.
Quote(name) == [i \in 1..Len(name) |-> IF name[i] = " " THEN "%20" ELSE name[i]]

FileName(m, suffix) ==
    sanitize_filename(m.title) \o <<"_">> \o sanitize_filename(m.artist) \o <<suffix>>

\* ConditionalStatus answering 304 to any If-None-Match header.
ConditionalStatusAny(inm, etag) == IF inm /= None THEN 304 ELSE 200

\* The status download answers with once the artifact is made, line 226.
ConditionalStatus(inm, etag) == IF inm = etag THEN 304 ELSE 200

\* download, lines 219-231.
Annotate(file_name, file_content, mimetype, inm) ==
    LET etag == generate_etag(file_content) IN
    [NoResp EXCEPT !.kind = "response",
                   !.status = ConditionalStatus(inm, etag),
                   !.body = file_content,
                   !.mimetype = mimetype,
                   !.file_name = Quote(file_name),
                   !.cache_control = "public, max-age=86400",
                   !.etag = etag]

\* What a handler makes of an exception raised by its get_spotify_info call:
\* result's `except Exception` (lines 165-168), download's `except ValueError`
\* and `except requests.RequestException` (lines 197-202).
Caught(handler, exc) ==
    IF handler = "result"
    THEN [resp |-> Redirect("Error fetching Spotify data. Please try again later."),
          log |-> {<<"error", 166>>}]
    ELSE IF IsValueError(exc)
    THEN [resp |-> Plain("Unsupported content type", 400), log |-> {<<"error", 198>>}]
    ELSE IF IsRequestException(exc)
    THEN [resp |-> Plain("Error fetching Spotify data", 500), log |-> {<<"error", 201>>}]
    ELSE [resp |-> Raise(exc), log |-> {}]

-----------------------------------------------------------------------------
(* Requests *)

TrackLink == <<"https:", "/", "/", "open.spotify.com", "/", "track", "/", "id1">>
AlbumLink == <<"https:", "/", "/", "open.spotify.com", "/", "album", "/", "id2">>
PlaylistLink ==
    <<"https:", "/", "/", "open.spotify.com", "/", "playlist", "/", "id3", "?", "si=abc">>
UnknownLink == <<"https:", "/", "/", "x", "/", "unknown", "/", "123">>
EmptyIdLink == <<"https:", "/", "/", "open.spotify.com", "/", "track", "/">>

\* The links a request may carry.
ReqLinks == {TrackLink, AlbumLink, PlaylistLink, UnknownLink, EmptyIdLink}

\* The <file_type> values a download request may carry.
FileTypes == {"album_art", "spotify_code", "lyrics"}

\* The If-None-Match values a download request may carry (None: no such header).
IfNoneMatchValues == {None, "md5:0a", "md5:2c"}

\* How far the clock moves in one step.
TickSteps == {1, TokenTimeout - 1, TokenTimeout}

\* No outbound call yet. bearers are the tokens the metadata reads carried
\* (line 74), unauthorized whether one of them was answered 401.
NoNet ==
    [exchange |-> 0, reads |-> 0, cover |-> 0, code |-> 0, bearers |-> {},
     unauthorized |-> FALSE]

NoFetch == [some |-> FALSE, token |-> None, at |-> 0]

NoTokenCall ==
    [made |-> FALSE, at |-> 0, prev |-> NoFetch, exchanges |-> 0, reply |-> NoReply,
     token |-> None, exc |-> None, before |-> EmptySlot, after |-> EmptySlot,
     prevFailed |-> FALSE]

\* Whether the latest get_access_token() call so far ended in an exception.
LatestCallFailed ==
    IF tokenCall.made THEN tokenCall.exc /= None ELSE tokenCall.prevFailed

TypeOK ==
    /\ now \in Nat
    /\ pc \in {"idle", "token", "request", "cover", "code", "done", "resolve", "resolved",
              "sanitize", "sanitized", "again", "race"}
    /\ op \in {"none", "result", "download"}
    /\ Len(calls) <= StopAfterAttempt + 1

Init ==
    /\ now = 0
    /\ ticks = 0
    /\ cache = EmptySlot
    /\ pc = "idle"
    /\ op = "none"
    /\ url = <<>>
    /\ file_type = None
    /\ if_none_match = None
    /\ ref = NoneRef
    /\ access_token = None
    /\ calls = <<>>
    /\ meta = NoMeta
    /\ resp = NoResp
    /\ log = {}
    /\ net = NoNet
    /\ tokenCall = NoTokenCall
    /\ lastFetch = NoFetch
    /\ order = <<>>
    /\ fname = <<>>
    /\ sanitized = <<>>
    /\ callers = <<>>
    /\ issued = {}
    /\ lastWrite = None

\* CacheAfterRead with a read answered 401 taking the token out of the slot.
CacheAfterReadInvalidating(c, status) == IF status = 401 THEN EmptySlot ELSE c

\* The slot after one attempt of make_spotify_request answered with status:
\* neither the attempt (lines 72-79), nor tenacity, nor get_spotify_info's
\* except clause (lines 123-125) makes a call on the cache.
CacheAfterRead(c, status) == c

\* IsRejected letting every link through, as download does.
IsRejectedNever(r) == FALSE

\* result's test of what the resolver returned (line 158):
\* `content_id is None or content_type is None`.
IsRejected(r) == r.isNone

\* FirstArtifact with download's two branches taking each other's fetch.
FirstArtifactSwapped(handler, ft) ==
    IF handler = "result" THEN "cover"
    ELSE IF ft = "album_art" THEN "code"
    ELSE IF ft = "spotify_code" THEN "cover"
    ELSE None

\* The fetch a handler makes first once the metadata is there: result saves
\* the cover art (line 175); download takes the branch of its file_type
\* (lines 207-217), and None stands for the branch that fetches nothing.
FirstArtifact(handler, ft) ==
    IF handler = "result" \/ ft = "album_art" THEN "cover"
    ELSE IF ft = "spotify_code" THEN "code"
    ELSE None

\* The handler ends: it returns r, or the exception in r leaves it.
Finish(r, records) ==
    /\ resp' = r
    /\ log' = log \cup records
    /\ pc' = "done"

\* A new request starts with the locals of the last one gone.
Fresh ==
    /\ access_token' = None
    /\ calls' = <<>>
    /\ meta' = NoMeta
    /\ net' = NoNet
    /\ tokenCall' = [NoTokenCall EXCEPT !.prevFailed = LatestCallFailed]
    /\ order' = <<>>

\* Time passes. The clock is read once per request, by the cache in
\* get_access_token, so time that passes during a request is time that passes
\* before the next one.
Tick ==
    /\ pc = "idle"
    /\ ticks < MaxTicks
    /\ ticks' = ticks + 1
    /\ \E d \in TickSteps : now' = now + d
    /\ UNCHANGED <<cache, pc, op, url, file_type, if_none_match, ref, access_token,
                   calls, meta, resp, log, net, tokenCall, lastFetch, order>>
    /\ UNCHANGED standalone

\* result(), lines 155-161: the link is resolved; a link resolved to None is
\* answered at once.
StartResult ==
    /\ pc = "idle"
    /\ \E u \in ReqLinks :
        /\ url' = u
        /\ ref' = spotify_url_to_id(u)
    /\ op' = "result"
    /\ file_type' = None
    /\ if_none_match' = None
    /\ Fresh
    /\ IF IsRejected(ref')
       THEN /\ resp' = Redirect("Invalid Spotify URL. Please try again.")
            /\ log' = {<<"warning", 160>>}
            /\ pc' = "done"
       ELSE /\ resp' = NoResp
            /\ log' = {}
            /\ pc' = "token"
    /\ UNCHANGED <<now, ticks, cache, lastFetch>>
    /\ UNCHANGED standalone

\* download(file_type), lines 192-193: the link is resolved, and whatever came
\* of it goes on to get_spotify_info.
StartDownload ==
    /\ pc = "idle"
    /\ \E u \in ReqLinks, ft \in FileTypes, inm \in IfNoneMatchValues :
        /\ url' = u
        /\ ref' = spotify_url_to_id(u)
        /\ file_type' = ft
        /\ if_none_match' = inm
    /\ op' = "download"
    /\ Fresh
    /\ resp' = NoResp
    /\ log' = {}
    /\ pc' = "token"
    /\ UNCHANGED <<now, ticks, cache, lastFetch>>
    /\ UNCHANGED standalone

\* get_spotify_info, lines 111-119: the token is obtained (get_access_token,
\* lines 46-69), then the endpoint is chosen by content_type.
GetAccessToken ==
    /\ pc = "token"
    /\ \E r \in ExchangeResponses :
        LET g == get_access_token(cache, now, r) IN
        /\ cache' = g.cache
        /\ access_token' = g.token
        /\ net' = [net EXCEPT !.exchange = @ + g.exchanges]
        /\ tokenCall' = [tokenCall EXCEPT !.made = TRUE, !.at = now, !.prev = lastFetch,
                                          !.exchanges = g.exchanges,
                                          !.reply = IF g.exchanges > 0 THEN r.status
                                                    ELSE NoReply,
                                          !.token = g.token,
                                          !.exc = g.exc, !.before = cache,
                                          !.after = g.cache]
        /\ lastFetch' = IF g.exchanges > 0 /\ g.exc = None
                        THEN [some |-> TRUE, token |-> r.access_token, at |-> now]
                        ELSE lastFetch
        /\ IF g.exc /= None
           THEN Finish(Caught(op, g.exc).resp, g.log \cup Caught(op, g.exc).log)
           ELSE IF ref.type \notin Kinds
           THEN Finish(Caught(op, "ValueError").resp,
                       g.log \cup Caught(op, "ValueError").log)
           ELSE /\ pc' = "request"
                /\ log' = log \cup g.log
                /\ resp' = resp
    /\ order' = Append(order, "token")
    /\ UNCHANGED <<now, ticks, op, url, file_type, if_none_match, ref, calls, meta>>
    /\ UNCHANGED standalone

\* One attempt of make_spotify_request (lines 72-79) and what tenacity and
\* get_spotify_info (lines 121-141) do with its outcome; for a read that
\* succeeded, the handler goes on to its first artifact (lines 170-173,
\* 204-217).
SpotifyRequest ==
    /\ pc = "request"
    /\ \E r \in ReadResponses :
        LET attempt_number == Len(calls) + 1
            exc == RequestError(r.status)
            e == Extract(ref.type, r.json)
        IN
        /\ calls' = Append(calls, IF exc = None THEN "ok" ELSE exc)
        /\ net' = [net EXCEPT !.reads = @ + 1, !.bearers = @ \cup {access_token},
                              !.unauthorized = @ \/ r.status = 401]
        /\ cache' = CacheAfterRead(cache, r.status)
        /\ IF exc = None
           THEN IF e.exc /= None
                THEN /\ meta' = meta
                     /\ Finish(Caught(op, e.exc).resp,
                               {<<"debug", 76>>} \cup Caught(op, e.exc).log)
                ELSE /\ meta' = e.meta
                     /\ IF FirstArtifact(op, file_type) /= None
                        THEN /\ pc' = FirstArtifact(op, file_type)
                             /\ resp' = resp
                             /\ log' = log \cup {<<"debug", 76>>, <<"info", 140>>}
                        ELSE Finish(Plain("File type not supported", 400),
                                    {<<"debug", 76>>, <<"info", 140>>, <<"warning", 216>>})
           ELSE /\ meta' = meta
                /\ IF ~ShouldRetry(exc)
                   THEN Finish(Caught(op, exc).resp,
                               {<<"debug", 76>>, <<"error", 124>>} \cup Caught(op, exc).log)
                   ELSE IF ShouldStop(attempt_number)
                   THEN Finish(Caught(op, "RetryError").resp,
                               {<<"debug", 76>>, <<"error", 124>>}
                                   \cup Caught(op, "RetryError").log)
                   ELSE /\ pc' = "request"
                        /\ resp' = resp
                        /\ log' = log \cup {<<"debug", 76>>}
    /\ order' = Append(order, "read")
    /\ UNCHANGED <<now, ticks, op, url, file_type, if_none_match, ref, access_token,
                   tokenCall, lastFetch>>
    /\ UNCHANGED standalone

\* save_image(album_art_url), lines 84-92, called outside any try block at
\* line 175 (result) and line 209 (download).
FetchCover ==
    /\ pc = "cover"
    /\ \E r \in ImageResponses :
        LET exc == IF RequestError(r.status) /= None THEN RequestError(r.status)
                   ELSE IF ~Decodable(r.content) THEN "UnidentifiedImageError"
                   ELSE None
        IN
        /\ net' = [net EXCEPT !.cover = @ + 1]
        /\ order' = IF exc = None /\ op = "download"
                     THEN order \o <<"cover", "compare">>
                     ELSE Append(order, "cover")
        /\ IF exc /= None
           THEN Finish(Raise(exc), {<<"debug", 85>>})
           ELSE IF op = "result"
           THEN /\ pc' = "code"
                /\ resp' = resp
                /\ log' = log \cup {<<"debug", 85>>}
           ELSE LET a == Annotate(FileName(meta, "_album_art.png"), PngEncode(r.content),
                                  "image/png", if_none_match)
                IN  Finish(a, {<<"debug", 85>>, <<"info", 230>>}
                                  \cup IF a.status = 304 THEN {<<"info", 227>>} ELSE {})
    /\ UNCHANGED <<now, ticks, cache, op, url, file_type, if_none_match, ref, access_token,
                   calls, meta, tokenCall, lastFetch>>
    /\ UNCHANGED standalone

\* get_spotify_code(uri), lines 103-108, called outside any try block at
\* line 176 (result) and line 213 (download).
FetchCode ==
    /\ pc = "code"
    /\ \E r \in CodeResponses :
        LET exc == RequestError(r.status) IN
        /\ net' = [net EXCEPT !.code = @ + 1]
        /\ order' = IF exc = None /\ op = "download"
                     THEN order \o <<"code", "compare">>
                     ELSE Append(order, "code")
        /\ IF exc /= None
           THEN Finish(Raise(exc), {<<"debug", 105>>})
           ELSE IF op = "result"
           THEN Finish(Render([title |-> meta.title,
                               artist |-> meta.artist,
                               link_type |-> ref.type,
                               album_art_url |-> Quote(FileName(meta, "_album_art.png")),
                               spotify_code_url |->
                                   Quote(FileName(meta, "_spotify_code.svg")),
                               spotify_url |-> url]),
                       {<<"debug", 105>>, <<"info", 181>>})
           ELSE LET a == Annotate(FileName(meta, "_spotify_code.svg"), r.content,
                                  "image/svg+xml", if_none_match)
                IN  Finish(a, {<<"debug", 105>>, <<"info", 230>>}
                                  \cup IF a.status = 304 THEN {<<"info", 227>>} ELSE {})
    /\ UNCHANGED <<now, ticks, cache, op, url, file_type, if_none_match, ref, access_token,
                   calls, meta, tokenCall, lastFetch>>
    /\ UNCHANGED standalone

\* The response is sent and the request's locals are dropped.
Respond ==
    /\ pc = "done"
    /\ pc' = "idle"
    /\ op' = "none"
    /\ url' = <<>>
    /\ file_type' = None
    /\ if_none_match' = None
    /\ ref' = NoneRef
    /\ resp' = NoResp
    /\ log' = {}
    /\ Fresh
    /\ UNCHANGED <<now, ticks, cache, lastFetch>>
    /\ UNCHANGED standalone

Next ==
    \/ Tick
    \/ StartResult
    \/ StartDownload
    \/ GetAccessToken
    \/ SpotifyRequest
    \/ FetchCover
    \/ FetchCode
    \/ Respond

Spec == Init /\ [][Next]_vars

\* Every outbound network call returns, with a reply or with a failure: a
\* request that waits for the auth endpoint, the metadata endpoint, the image
\* host or the scannables endpoint is eventually taken further. (The wait
\* between two read attempts, wait_fixed(2), ends by itself.)
Returns ==
    /\ WF_vars(GetAccessToken)
    /\ WF_vars(SpotifyRequest)
    /\ WF_vars(FetchCover)
    /\ WF_vars(FetchCode)

\* The states of the worker a request can find: the slot empty, holding a
\* token that has just expired (stored TokenTimeout ago), or holding a live one.
InitServe ==
    /\ now = TokenTimeout
    /\ ticks = 0
    /\ \E tok \in Tokens, at \in {0, 1} :
        \/ /\ cache = EmptySlot
           /\ lastFetch = NoFetch
        \/ /\ cache = CacheSet(tok, TokenTimeout, at)
           /\ lastFetch = [some |-> TRUE, token |-> tok, at |-> at]
    /\ pc = "idle"
    /\ op = "none"
    /\ url = <<>>
    /\ file_type = None
    /\ if_none_match = None
    /\ ref = NoneRef
    /\ access_token = None
    /\ calls = <<>>
    /\ meta = NoMeta
    /\ resp = NoResp
    /\ log = {}
    /\ net = NoNet
    /\ tokenCall = NoTokenCall
    /\ order = <<>>
    /\ fname = <<>>
    /\ sanitized = <<>>
    /\ callers = <<>>
    /\ issued = {}
    /\ lastWrite = None

\* The requests served one after another, the clock standing still.
NextServe ==
    \/ StartResult
    \/ StartDownload
    \/ GetAccessToken
    \/ SpotifyRequest
    \/ FetchCover
    \/ FetchCode
    \/ Respond

SpecReturns == InitServe /\ [][NextServe]_vars /\ Returns

-----------------------------------------------------------------------------
(* The resolver on its own: spotify_url_to_id applied to every link of up to
   MaxLinkLen symbols *)

LinkSymbols == {"/", "?", "track", "album", "playlist", "id", "x"}

AllLinks == UNION {[1..n -> LinkSymbols] : n \in 0..MaxLinkLen}

InitResolve ==
    /\ now = 0
    /\ ticks = 0
    /\ cache = EmptySlot
    /\ pc = "resolve"
    /\ op = "none"
    /\ url \in AllLinks
    /\ file_type = None
    /\ if_none_match = None
    /\ ref = NoneRef
    /\ access_token = None
    /\ calls = <<>>
    /\ meta = NoMeta
    /\ resp = NoResp
    /\ log = {}
    /\ net = NoNet
    /\ tokenCall = NoTokenCall
    /\ lastFetch = NoFetch
    /\ order = <<>>
    /\ fname = <<>>
    /\ sanitized = <<>>
    /\ callers = <<>>
    /\ issued = {}
    /\ lastWrite = None

\* content_id, content_type = spotify_url_to_id(spotify_url)
Resolve ==
    /\ pc = "resolve"
    /\ ref' = spotify_url_to_id(url)
    /\ pc' = "resolved"
    /\ UNCHANGED <<now, ticks, cache, op, url, file_type, if_none_match, access_token,
                   calls, meta, resp, log, net, tokenCall, lastFetch, order>>
    /\ UNCHANGED standalone

NextResolve == Resolve

SpecResolve == InitResolve /\ [][NextResolve]_vars

-----------------------------------------------------------------------------
(* The sanitizer on its own: sanitize_filename applied to every string of up
   to MaxNameLen characters, and then to its own result *)

\* Characters of the strings: whitespace, a letter, and characters the
\* pattern removes.
NameChars == {" ", "\t", "a", "/", "*"}

AllNames == UNION {[1..n -> NameChars] : n \in 0..MaxNameLen}

InitSanitize ==
    /\ now = 0
    /\ ticks = 0
    /\ cache = EmptySlot
    /\ pc = "sanitize"
    /\ op = "none"
    /\ url = <<>>
    /\ file_type = None
    /\ if_none_match = None
    /\ ref = NoneRef
    /\ access_token = None
    /\ calls = <<>>
    /\ meta = NoMeta
    /\ resp = NoResp
    /\ log = {}
    /\ net = NoNet
    /\ tokenCall = NoTokenCall
    /\ lastFetch = NoFetch
    /\ order = <<>>
    /\ fname \in AllNames
    /\ sanitized = <<>>
    /\ callers = <<>>
    /\ issued = {}
    /\ lastWrite = None

\* sanitize_filename(s)
Sanitize ==
    /\ pc = "sanitize"
    /\ sanitized' = <<sanitize_filename(fname)>>
    /\ pc' = "sanitized"
    /\ UNCHANGED <<now, ticks, cache, op, url, file_type, if_none_match, ref, access_token,
                   calls, meta, resp, log, net, tokenCall, lastFetch, order, fname,
                   callers, issued, lastWrite>>

\* sanitize_filename(sanitize_filename(s))
SanitizeAgain ==
    /\ pc = "sanitized"
    /\ sanitized' = Append(sanitized, sanitize_filename(sanitized[1]))
    /\ pc' = "again"
    /\ UNCHANGED <<now, ticks, cache, op, url, file_type, if_none_match, ref, access_token,
                   calls, meta, resp, log, net, tokenCall, lastFetch, order, fname,
                   callers, issued, lastWrite>>

NextSanitize ==
    \/ Sanitize
    \/ SanitizeAgain

SpecSanitize == InitSanitize /\ [][NextSanitize]_vars

-----------------------------------------------------------------------------
(* get_access_token called by the threads of one worker at once. Nothing in
   lines 46-69 excludes one call from another, so a call can be overtaken
   between the cache lookup (line 47), the exchange (line 59) and the
   cache.set (line 67). SimpleCache.get and SimpleCache.set are each one step. *)

NoExchangeReply == [status |-> NoReply, access_token |-> None, expires_in |-> 0]

\* A call that has not looked at the cache yet.
StartCall == [at |-> "start", reply |-> NoExchangeReply, token |-> None, exc |-> None]

InitRace ==
    /\ now = 0
    /\ ticks = 0
    /\ cache = EmptySlot
    /\ pc = "race"
    /\ op = "none"
    /\ url = <<>>
    /\ file_type = None
    /\ if_none_match = None
    /\ ref = NoneRef
    /\ access_token = None
    /\ calls = <<>>
    /\ meta = NoMeta
    /\ resp = NoResp
    /\ log = {}
    /\ net = NoNet
    /\ tokenCall = NoTokenCall
    /\ lastFetch = NoFetch
    /\ order = <<>>
    /\ fname = <<>>
    /\ sanitized = <<>>
    /\ callers = [i \in 1..Threads |-> StartCall]
    /\ issued = {}
    /\ lastWrite = None

RaceFrame ==
    UNCHANGED <<pc, op, url, file_type, if_none_match, ref, access_token, calls, meta,
                resp, log, net, tokenCall, lastFetch, order, fname, sanitized>>

\* Time passes between the steps of the calls.
RaceTick ==
    /\ pc = "race"
    /\ ticks < MaxTicks
    /\ ticks' = ticks + 1
    /\ \E d \in TickSteps : now' = now + d
    /\ UNCHANGED <<cache, callers, issued, lastWrite>>
    /\ RaceFrame

\* Lines 47-50: the cache lookup; a call that finds a token returns it.
RaceLookup(i) ==
    /\ callers[i].at = "start"
    /\ LET g == get_access_token(cache, now, NoExchangeReply) IN
       callers' = [callers EXCEPT ![i] =
                       IF g.exchanges = 0
                       THEN [@ EXCEPT !.at = "returned", !.token = g.token]
                       ELSE [@ EXCEPT !.at = "missed"]]
    /\ UNCHANGED <<now, ticks, cache, issued, lastWrite>>
    /\ RaceFrame

\* Lines 52-65: the exchange, by a call whose lookup found nothing; a reply
\* that is not a success ends the call with an exception.
RacePost(i) ==
    /\ callers[i].at = "missed"
    /\ \E r \in ExchangeResponses :
        LET g == get_access_token(EmptySlot, now, r) IN
        /\ callers' = [callers EXCEPT ![i] =
                           IF g.exc /= None
                           THEN [@ EXCEPT !.at = "returned", !.exc = g.exc]
                           ELSE [@ EXCEPT !.at = "posted", !.reply = r]]
        /\ issued' = IF r.status = 200 THEN issued \cup {r.access_token} ELSE issued
    /\ UNCHANGED <<now, ticks, cache, lastWrite>>
    /\ RaceFrame

\* Lines 66-69: the token of the reply is stored, whatever the slot holds by
\* now, and returned.
RaceStore(i) ==
    /\ callers[i].at = "posted"
    /\ LET g == get_access_token(EmptySlot, now, callers[i].reply) IN
       /\ cache' = g.cache
       /\ lastWrite' = g.token
       /\ callers' = [callers EXCEPT ![i] = [@ EXCEPT !.at = "returned", !.token = g.token]]
    /\ UNCHANGED <<now, ticks, issued>>
    /\ RaceFrame

\* The thread takes its next request and calls get_access_token again.
RaceAgain(i) ==
    /\ callers[i].at = "returned"
    /\ callers' = [callers EXCEPT ![i] = StartCall]
    /\ UNCHANGED <<now, ticks, cache, issued, lastWrite>>
    /\ RaceFrame

NextRace ==
    \/ RaceTick
    \/ \E i \in 1..Threads : RaceLookup(i)
    \/ \E i \in 1..Threads : RacePost(i)
    \/ \E i \in 1..Threads : RaceStore(i)
    \/ \E i \in 1..Threads : RaceAgain(i)

SpecRace == InitRace /\ [][NextRace]_vars

-----------------------------------------------------------------------------
(* Properties *)

AllFailed(outcomes) == \A i \in 1..Len(outcomes) : outcomes[i] /= "ok"

\* The retry wrapper has handed its result, or its failure, to get_spotify_info.
WrapperLeft == calls /= <<>> /\ pc \in {"cover", "code", "done"}

\* C1: make_spotify_request's retry stops at the first success or after the 3rd
\* failure. Every attempt before the last one failed; the wrapper is left either
\* on a success (the result is returned, no failure is reported) or with exactly
\* 3 attempts that all failed (the failure reaches the caller, who does not go
\* on); a failure of any kind with fewer than 3 attempts made leaves the wrapper
\* retrying; no 4th attempt is ever made.
C1_RetryStops ==
    /\ Len(calls) <= StopAfterAttempt
    /\ net.reads = Len(calls)
    /\ calls /= <<>> => AllFailed(SubSeq(calls, 1, Len(calls) - 1))
    /\ (calls /= <<>> /\ AllFailed(calls) /\ Len(calls) < StopAfterAttempt)
           => pc = "request"
    /\ pc = "request" => AllFailed(calls)
    /\ (WrapperLeft /\ calls[Len(calls)] = "ok") => <<"error", 124>> \notin log
    /\ (WrapperLeft /\ calls[Len(calls)] /= "ok")
           => /\ Len(calls) = StopAfterAttempt
              /\ pc = "done"
              /\ <<"error", 124>> \in log
              /\ resp.kind \in {"redirect", "raise"}
              /\ resp.kind = "raise" => resp.exc = "RetryError"
              /\ net.cover = 0 /\ net.code = 0

\* C1's case: two failures of different kinds, then a success on the 3rd attempt.
C1_Witness ==
    /\ calls = <<"HTTPError", "ConnectionError", "ok">>
    /\ pc = "cover"
    /\ meta /= NoMeta

\* Seconds between the last successful exchange before this request's
\* get_access_token() call and that call.
SinceFetch == tokenCall.at - tokenCall.prev.at

\* C2: a get_access_token() call made less than 3600 seconds after the last
\* successful exchange makes no network call and returns the token that
\* exchange fetched.
C2_TokenReused ==
    (tokenCall.made /\ tokenCall.prev.some /\ SinceFetch < TokenTimeout)
        => /\ tokenCall.exchanges = 0
           /\ net.exchange = 0
           /\ tokenCall.exc = None
           /\ tokenCall.token = tokenCall.prev.token
           /\ access_token = tokenCall.prev.token

\* C2's case: a call one second before the hour is over, after other requests.
C2_Witness ==
    /\ tokenCall.made
    /\ tokenCall.prev.some
    /\ SinceFetch = TokenTimeout - 1
    /\ tokenCall.token = "tokB"
    /\ tokenCall.exchanges = 0

\* C3: the slot's entry expires 3600 seconds after the exchange that filled it,
\* whatever lifetime the reply reported; a call is served from the cache only
\* within that time, and a call made once it is over exchanges credentials anew.
C3_FixedTtl ==
    /\ cache.present
           => /\ lastFetch.some
              /\ cache.expires = lastFetch.at + TokenTimeout
              /\ cache.value = lastFetch.token
    /\ (tokenCall.made /\ tokenCall.exchanges = 0)
           => tokenCall.prev.some /\ SinceFetch < TokenTimeout
    /\ (tokenCall.made /\ tokenCall.prev.some /\ SinceFetch >= TokenTimeout)
           => tokenCall.exchanges = 1

\* C3's case: a call exactly 3600 seconds after the exchange fetches a new token.
C3_Witness ==
    /\ tokenCall.made
    /\ tokenCall.prev.some
    /\ SinceFetch = TokenTimeout
    /\ tokenCall.exchanges = 1
    /\ tokenCall.exc = None
    /\ tokenCall.before.present
    /\ tokenCall.after.expires = tokenCall.at + TokenTimeout

\* C4: a credential exchange answered with 401, with another failure status or
\* not at all makes get_access_token() fail: no token is returned, the slot is
\* as it was before the call, one exchange was attempted and the request ends
\* without another; the slot changes only in a call whose exchange succeeded;
\* and the call that follows a failed call exchanges again.
C4_ExchangeFailure ==
    /\ net.exchange <= 1
    /\ (tokenCall.made /\ tokenCall.exchanges = 1 /\ tokenCall.reply \in FailureStatuses)
           => /\ tokenCall.exc /= None
              /\ tokenCall.token = None
              /\ tokenCall.after = tokenCall.before
              /\ cache = tokenCall.before
              /\ net.exchange = 1
              /\ pc = "done"
              /\ resp.kind \in {"redirect", "raise", "response"}
              /\ resp.kind = "response" => resp.status = 500
    /\ (tokenCall.made /\ tokenCall.after /= tokenCall.before)
           => tokenCall.exchanges = 1 /\ tokenCall.exc = None
    /\ (tokenCall.made /\ tokenCall.prevFailed) => tokenCall.exchanges = 1

\* C4's case: a 401 with an expired token in the slot, right after a failed call.
C4_Witness ==
    /\ tokenCall.made
    /\ tokenCall.prevFailed
    /\ tokenCall.reply = 401
    /\ tokenCall.exc = "Exception"
    /\ tokenCall.before.present
    /\ cache = tokenCall.before

\* A download request has ended, with a response or with an exception.
DownloadDone == op = "download" /\ pc = "done"

\* C5: download answers 400 to every link that holds none of "track", "album",
\* "playlist", whatever the slot holds and whatever the upstream answers.
\* (Stated as claimed; the code reaches its 400 only through get_access_token.)
C5_UnparseableLink400 ==
    (DownloadDone /\ ~Contains(url, "track") /\ ~Contains(url, "album")
                  /\ ~Contains(url, "playlist"))
        => resp.kind = "response" /\ resp.status = 400

\* C6: download answers 400 to every file_type other than album_art and
\* spotify_code, whatever the link and whatever the upstream answers.
\* (Stated as claimed; the code looks at file_type after get_spotify_info.)
C6_UnsupportedSelector400 ==
    (DownloadDone /\ file_type \notin {"album_art", "spotify_code"})
        => resp.kind = "response" /\ resp.status = 400

\* The metadata fetch of a request whose link was resolved and whose token was
\* obtained has failed: the read ran out of attempts, or its reply lacked a field.
MetadataFailed ==
    /\ pc = "done"
    /\ ~ref.isNone
    /\ tokenCall.made
    /\ tokenCall.exc = None
    /\ calls /= <<>>
    /\ meta = NoMeta

\* C7: in download, every failure of the metadata fetch for a resolved link ends
\* in a 500 response with the generic message and an error record in the log.
\* (Stated as claimed; RetryError, KeyError and IndexError pass download's
\* except clauses.)
C7_MetadataFailure500 ==
    (op = "download" /\ MetadataFailed)
        => /\ resp.kind = "response"
           /\ resp.status = 500
           /\ resp.body = "Error fetching Spotify data"
           /\ \E rec \in log : rec[1] = "error"

\* C8: result ends in the rendered view (title, artist, two artifact URLs) or in
\* a flashed error, the latter for an unresolved link and for any upstream
\* failure, the cover-art and scannable-code fetches included.
\* (Stated as claimed; save_image and get_spotify_code run outside result's try.)
C8_ResultViewOrError ==
    (op = "result" /\ pc = "done")
        => \/ /\ resp.kind = "render"
              /\ Len(resp.view) = 1
              /\ net.cover = 1 /\ net.code = 1
           \/ /\ resp.kind = "redirect"
              /\ resp.flash /= None

\* The digest of each artifact the upstream can lead to.
Md5Table ==
    {<<"pngA", "md5:0a">>, <<"pngB", "md5:1b">>, <<"svgA", "md5:2c">>, <<"svgB", "md5:3d">>}

\* C9: a download that made its artifact answers with Cache-Control
\* 'public, max-age=86400', an ETag that is the digest of the body, the artifact
\* of the requested type as body, and status 304 exactly when If-None-Match
\* equals that ETag, 200 otherwise (also without If-None-Match).
C9_ConditionalResponse ==
    (DownloadDone /\ resp.kind = "response" /\ resp.status \notin {400, 500})
        => /\ resp.status \in {200, 304}
           /\ resp.cache_control = "public, max-age=86400"
           /\ <<resp.body, resp.etag>> \in Md5Table
           /\ resp.mimetype = (IF file_type = "album_art" THEN "image/png"
                               ELSE "image/svg+xml")
           /\ resp.status = 304 <=> if_none_match = resp.etag
           /\ if_none_match = None => resp.status = 200

\* C9's case: the If-None-Match of a request for the cover art is the digest of
\* the re-encoded image.
C9_Witness ==
    /\ DownloadDone
    /\ file_type = "album_art"
    /\ if_none_match = "md5:0a"
    /\ resp.body = "pngA"
    /\ resp.etag = "md5:0a"
    /\ resp.status = 304

\* C10: the resolver returns None for every link that holds none of the three
\* keywords and for every link whose final segment is empty, so whatever else it
\* returns has a non-empty id and a kind among the three.
\* (Stated as claimed; the code tests only for the keywords.)
C10_ResolvedIdNonEmpty ==
    pc = "resolved"
        => /\ (~Contains(url, "track") /\ ~Contains(url, "album")
                   /\ ~Contains(url, "playlist")) => ref.isNone
           /\ ~ref.isNone => ref.id /= <<>> /\ ref.type \in Kinds

-----------------------------------------------------------------------------
(* The resolver's classification and identifier *)

\* C11: the resolver classifies by fixed priority, not by position: a link that
\* holds "track" anywhere resolves as a track, whatever else it holds and in
\* whatever order; a link without "track" that holds "album" resolves as an
\* album, also when it holds "playlist"; a link resolves as a playlist only
\* when it holds neither "track" nor "album".
C11_FixedPriority ==
    pc = "resolved"
        => /\ Contains(url, "track") => ~ref.isNone /\ ref.type = "track"
           /\ (~Contains(url, "track") /\ Contains(url, "album"))
                  => ~ref.isNone /\ ref.type = "album"
           /\ (~Contains(url, "track") /\ ~Contains(url, "album")
                   /\ Contains(url, "playlist"))
                  => ~ref.isNone /\ ref.type = "playlist"
           /\ (~ref.isNone /\ ref.type = "playlist")
                  => ~Contains(url, "track") /\ ~Contains(url, "album")

\* C11's case: "playlist" and "album" both come before "track" in the link, and
\* the link resolves as a track.
C11_Witness ==
    /\ pc = "resolved"
    /\ Len(url) = 4
    /\ url[1] = "playlist"
    /\ url[2] = "album"
    /\ url[3] = "track"
    /\ ~ref.isNone
    /\ ref.type = "track"

\* The final path segment of a link with the query string stripped: the query
\* string (what follows the first "?") is cut off first, and the segment is
\* what follows the last "/" of the rest.
FinalPathSegment(link) == SplitLast(SplitFirst(link, "?"), "/")

\* C12: for every link the resolver accepts, the id it returns is the final
\* path segment of the link with the query string stripped, also when the query
\* string itself holds a "/".
\* (Stated as claimed; the code cuts at the last "/" of the whole link first.)
C12_IdIsFinalPathSegment ==
    (pc = "resolved" /\ ~ref.isNone) => ref.id = FinalPathSegment(url)

-----------------------------------------------------------------------------
(* The sanitizer *)

\* C13: sanitize_filename is idempotent, sanitize(sanitize(s)) = sanitize(s)
\* for every string s, and its result holds none of the characters
\* < > : " / \ | ? * and neither starts nor ends with whitespace.
C13_SanitizeIdempotent ==
    /\ Len(sanitized) >= 1
           => LET out == sanitized[1] IN
              /\ \A i \in 1..Len(out) : out[i] \notin ForbiddenChars
              /\ out /= <<>> => out[1] \notin Whitespace /\ out[Len(out)] \notin Whitespace
    /\ Len(sanitized) = 2 => sanitized[2] = sanitized[1]

\* C13's case: a string with whitespace on both sides of a removed character at
\* its start, sanitized twice.
C13_Witness ==
    /\ pc = "again"
    /\ Len(fname) = 4
    /\ fname[1] = "/"
    /\ fname[2] = " "
    /\ fname[3] = "a"
    /\ fname[4] = "\t"
    /\ sanitized = << <<"a">>, <<"a">> >>

-----------------------------------------------------------------------------
(* Concurrent token calls *)

\* C14: under every interleaving of concurrent get_access_token() calls, every
\* call that returns a token returns one the auth endpoint issued; the cache
\* slot is either empty or holds one whole token issued by a successful
\* exchange; and the slot holds the token of the latest write.
C14_RaceKeepsTokensWhole ==
    /\ \A i \in DOMAIN callers :
           (callers[i].at = "returned" /\ callers[i].exc = None)
               => callers[i].token \in issued
    /\ \/ cache = EmptySlot
       \/ /\ cache.present
          /\ cache.value \in Tokens
          /\ cache.value \in issued
          /\ cache.value = lastWrite

\* C14's case: before the clock has moved, both calls have returned, each with
\* a token of its own, so both missed the cache and both exchanged; the slot
\* holds the token of the call that wrote last.
C14_Witness ==
    /\ pc = "race"
    /\ ticks = 0
    /\ callers[1].at = "returned"
    /\ callers[2].at = "returned"
    /\ callers[1].token = "tokA"
    /\ callers[2].token = "tokB"
    /\ cache.value = "tokA"
    /\ lastWrite = "tokA"

-----------------------------------------------------------------------------
(* Order of the steps of a request *)

\* n metadata reads in a row.
Reads(n) == [i \in 1..n |-> "read"]

\* The artifact fetch that download's file_type selects.
ArtifactStep == IF file_type = "album_art" THEN "cover" ELSE "code"

\* C15: in every download request answered 200 or 304 the artifact was made
\* anew before the ETag comparison: the token lookup, then the metadata read
\* (its last attempt a success), then the fetch of the artifact the file_type
\* selects, and only then the comparison. No 304 is produced without them.
C15_RegeneratedBeforeCompare ==
    /\ (DownloadDone /\ resp.status \in {200, 304})
           => /\ file_type \in {"album_art", "spotify_code"}
              /\ tokenCall.made
              /\ tokenCall.exc = None
              /\ calls /= <<>>
              /\ calls[Len(calls)] = "ok"
              /\ order = <<"token">> \o Reads(Len(calls)) \o <<ArtifactStep, "compare">>
              /\ IF file_type = "album_art" THEN net.cover = 1 ELSE net.code = 1
    /\ Contains(order, "compare") => DownloadDone /\ resp.status \in {200, 304}

\* C15's case: a 304 for the scannable code, answered after a token lookup, two
\* metadata reads and the fetch of the code.
C15_Witness ==
    /\ DownloadDone
    /\ file_type = "spotify_code"
    /\ resp.status = 304
    /\ calls = <<"HTTPError", "ok">>
    /\ order = <<"token", "read", "read", "code", "compare">>

-----------------------------------------------------------------------------
(* Termination and the number of outbound calls *)

\* A request is in service: its handler has been entered and has not ended.
InService == pc \in {"token", "request", "cover", "code"}

\* C16: given that every outbound call returns, every result and download
\* request comes to its end, after at most one credential exchange, at most 3
\* metadata read attempts and at most one fetch of each artifact; nothing is
\* retried without bound.
C16_RequestsEnd ==
    /\ [](/\ net.exchange <= 1
          /\ net.reads <= 3
          /\ net.cover <= 1
          /\ net.code <= 1
          /\ Len(order) <= 6)
    /\ InService ~> (pc = "done")

\* C16's case: a result request that ended after one exchange, three read
\* attempts and one fetch of each artifact.
C16_Witness ==
    /\ op = "result"
    /\ pc = "done"
    /\ resp.kind = "render"
    /\ net.exchange = 1
    /\ net.reads = 3
    /\ net.cover = 1
    /\ net.code = 1

-----------------------------------------------------------------------------
(* The token during the metadata read *)

\* How often a step occurs among the steps of this request.
Count(step) == Cardinality({i \in 1..Len(order) : order[i] = step})

\* C17: within one metadata fetch the token is obtained once, before the first
\* read attempt; every read attempt carries that token; and no read attempt,
\* failed ones and ones answered 401 included, clears or replaces the cached
\* token: the slot stays as the token call left it.
C17_ReadKeepsToken ==
    (pc \in {"request", "cover", "code", "done"} /\ calls /= <<>>)
        => /\ tokenCall.made
           /\ tokenCall.exc = None
           /\ tokenCall.token \in Tokens
           /\ order[1] = "token"
           /\ Count("token") = 1
           /\ net.exchange <= 1
           /\ net.bearers = {tokenCall.token}
           /\ access_token = tokenCall.token
           /\ cache = tokenCall.after

\* C17's case: three read attempts have failed, one of them answered 401, with
\* a token that came from the cache; the slot still holds it.
C17_Witness ==
    /\ pc = "done"
    /\ Len(calls) = 3
    /\ AllFailed(calls)
    /\ net.unauthorized
    /\ tokenCall.exchanges = 0
    /\ net.bearers = {"tokA"}
    /\ cache.present
    /\ cache.value = "tokA"
    /\ cache = tokenCall.before

-----------------------------------------------------------------------------
(* A rejected link *)

\* C18: a result request whose link the resolver rejects (returns None) ends
\* without any outbound network call (no credential exchange, no metadata
\* read, no artifact fetch) and leaves the token cache as it was.
C18_RejectedLinkNoCalls ==
    [][(op' = "result" /\ ref'.isNone /\ pc' = "done")
           => /\ cache' = cache
              /\ lastFetch' = lastFetch
              /\ net' = NoNet
              /\ order' = <<>>
              /\ ~tokenCall'.made]_vars

\* C18's case: a rejected link has been answered by result while the slot holds
\* a token.
C18_Witness ==
    /\ op = "result"
    /\ pc = "done"
    /\ ref.isNone
    /\ url = UnknownLink
    /\ resp.kind = "redirect"
    /\ net = NoNet
    /\ cache.present
    /\ cache.value = "tokB"

=============================================================================
